---------------------------- MODULE Spec2Model ----------------------------
(***************************************************************************)
(* State-machine model of src/lightbox.js: the Vimeo lightbox controller   *)
(* (class VimeoLightbox), its thumbnail preview embeds, its timeline and   *)
(* toast handlers, and the readiness gate (initLightbox, tryInitLightbox). *)
(*                                                                         *)
(* Conventions.  Times are milliseconds and are kept relative to the       *)
(* present instant: Date.now() is the origin, a timer is the time left     *)
(* until it is due, and this.toastLockUntil (a Date.now() + d) is the time *)
(* left of the lock, 0 once it has passed (the code reads the field only   *)
(* in "toastLockUntil && Date.now() < toastLockUntil", which a passed lock *)
(* and an unset one answer alike).  Elapse(d) lets d milliseconds pass: it *)
(* takes d off every stored time, and never passes a timer that is due.    *)
(* A field that holds a timer id (pauseTimeout, loadingTimeoutId) is 1     *)
(* when it holds the id of the timer marked tracked, 0 when it is null.    *)
(* Scroll offsets are counted in half pixels, because window.scrollY is a  *)
(* double.  The modal markup is the complete markup the page contract      *)
(* names (every element the constructor queries exists).                   *)
(***************************************************************************)
EXTENDS Integers, Sequences, FiniteSets, TLC

(***************************************************************************)
(* Bounds of the model.                                                    *)
(***************************************************************************)
MaxHandles == 2
MaxOffset == 3
MaxChains == 1
MaxEmbeds == 3
MaxX == 3

(***************************************************************************)
(* Program constants.                                                      *)
(***************************************************************************)
ToastDefaultMs == 1000
TapToUnmuteMs == 1500
LoaderDelayMs == 600
ControlsRevealMs == 300
ReinitDelayMs == 50
FailTimeoutMs == 5000
SettleDelayMs == 1000
PollIntervalMs == 100
PollCapMs == 10000
ThinkTimes == {500}

InvalidVideoId == "INVALID_VIDEO_ID_FOR_TESTING"

InvalidThumbnailIds == {"INVALID_ID_FOR_TESTING", "undefined", ""}

Handles == 1..MaxHandles
EmbedIds == 1..MaxEmbeds
Offsets == 0..MaxOffset

\* pointer positions (clientX) and the rectangles getBoundingClientRect()
\* answers for the timeline track, in pixels
PointerXs == 0..MaxX
TrackRects == [left : {1}, width : {0, 2}]

\* the current times a timeupdate event reports
Seconds == {[k |-> "fin", n |-> 0, d |-> 1], [k |-> "fin", n |-> 19, d |-> 2],
            [k |-> "fin", n |-> 30, d |-> 1], [k |-> "fin", n |-> 75, d |-> 1]}

(***************************************************************************)
(* The tiles of the page: data-main-video, data-thumbnail-id, data-title.  *)
(***************************************************************************)
Tiles ==
  { [mainVideo |-> "123", thumbnailId |-> "456", title |-> "Demo"],
    [mainVideo |-> "124", thumbnailId |-> "457", title |-> "Short"],
    [mainVideo |-> InvalidVideoId, thumbnailId |-> "789", title |-> "Broken"] }

Min(S) == CHOOSE m \in S : \A n \in S : m <= n

(***************************************************************************)
(* Number formatting and parsing, as JavaScript does them.                 *)
(***************************************************************************)
DigitChar == <<"0", "1", "2", "3", "4", "5", "6", "7", "8", "9">>

RECURSIVE ToDecimal(_)
ToDecimal(n) ==
  IF n < 10 THEN DigitChar[n + 1]
  ELSE ToDecimal(n \div 10) \o DigitChar[(n % 10) + 1]

\* String.prototype.padStart(2, '0') of a decimal numeral
PadStart2(n) == IF n < 10 THEN "0" \o ToDecimal(n) ELSE ToDecimal(n)

\* `${y}` of a scroll offset given in half pixels, as a sequence of characters
NumberChars(y2) ==
  LET whole == y2 \div 2
      RECURSIVE Digits(_)
      Digits(n) == IF n < 10 THEN <<DigitChar[n + 1]>>
                   ELSE Digits(n \div 10) \o <<DigitChar[(n % 10) + 1]>>
  IN  IF y2 % 2 = 0 THEN Digits(whole) ELSE Digits(whole) \o <<".", "5">>

\* `-${savedScrollY}px`
TopString(y2) == <<"-">> \o NumberChars(y2) \o <<"p", "x">>

DigitValue(c) == CHOOSE v \in 0..9 : DigitChar[v + 1] = c
IsDigit(c) == \E v \in 0..9 : DigitChar[v + 1] = c

\* parseInt(str, 10): an optional sign, then the longest run of digits
ParseInt(str) ==
  LET neg == Len(str) > 0 /\ str[1] = "-"
      body == IF neg THEN Tail(str) ELSE str
      RECURSIVE Run(_, _)
      Run(i, acc) == IF i <= Len(body) /\ IsDigit(body[i])
                     THEN Run(i + 1, 10 * acc + DigitValue(body[i]))
                     ELSE acc
      v == Run(1, 0)
  IN  IF neg THEN 0 - v ELSE v

Abs(n) == IF n < 0 THEN 0 - n ELSE n

(***************************************************************************)
(* JavaScript numbers that the timeline computes with: a finite rational   *)
(* n/d in lowest terms (d > 0), an infinity (n is its sign) or NaN.        *)
(***************************************************************************)
RECURSIVE Gcd(_, _)
Gcd(a, b) == IF b = 0 THEN a ELSE Gcd(b, a % b)

Fin(n, d) ==
  LET g == Gcd(Abs(n), d)
  IN  [k |-> "fin", n |-> n \div g, d |-> d \div g]

NaN == [k |-> "nan", n |-> 0, d |-> 0]
Inf(sgn) == [k |-> "inf", n |-> sgn, d |-> 0]
Zero == Fin(0, 1)
One == Fin(1, 1)

\* a / b for integers a and b (b >= 0)
Divide(a, b) ==
  IF b # 0 THEN Fin(a, b)
  ELSE IF a > 0 THEN Inf(1)
  ELSE IF a < 0 THEN Inf(-1)
  ELSE NaN

\* u < v for two numbers neither of which is NaN
Less(u, v) ==
  IF u.k = "inf" THEN u.n < 0 /\ ~(v.k = "inf" /\ v.n < 0)
  ELSE IF v.k = "inf" THEN v.n > 0
  ELSE u.n * v.d < v.n * u.d

\* Math.min(a, b) and Math.max(a, b): NaN when either argument is NaN
MathMin(a, b) == IF a.k = "nan" \/ b.k = "nan" THEN NaN ELSE IF Less(b, a) THEN b ELSE a
MathMax(a, b) == IF a.k = "nan" \/ b.k = "nan" THEN NaN ELSE IF Less(a, b) THEN b ELSE a

\* u / v for a finite u >= 0 and a finite v > 0
Quotient(u, v) == Fin(u.n * v.d, u.d * v.n)

\* p * v for a finite v >= 0
Times(p, v) ==
  IF p.k = "nan" THEN NaN
  ELSE IF p.k = "inf" THEN (IF v.n = 0 THEN NaN ELSE p)
  ELSE Fin(p.n * v.n, p.d * v.d)

\* a formatTime that does not pad the seconds to two digits
FormatTimeUnpadded(seconds) ==
  IF seconds.k = "nan" THEN "NaN:NaN"
  ELSE IF seconds.k = "inf" THEN "Infinity:NaN"
  ELSE LET mins == seconds.n \div (60 * seconds.d)
           secs == (seconds.n % (60 * seconds.d)) \div seconds.d
       IN  ToDecimal(mins) \o ":" \o ToDecimal(secs)

\* formatTime(seconds) of a number of seconds that is not negative:
\* Math.floor(NaN) is NaN, Infinity % 60 is NaN
FormatTime(seconds) ==
  IF seconds.k = "nan" THEN "NaN:NaN"
  ELSE IF seconds.k = "inf" THEN "Infinity:NaN"
  ELSE LET mins == seconds.n \div (60 * seconds.d)
           secs == (seconds.n % (60 * seconds.d)) \div seconds.d
       IN  ToDecimal(mins) \o ":" \o PadStart2(secs)

\* the length of the video with this id, as getDuration() reports it
DurationOf(vimeoId) == IF vimeoId = "124" THEN Fin(45, 1) ELSE Fin(120, 1)

(***************************************************************************)
(* Embed URLs.                                                             *)
(***************************************************************************)
EmptySrc == [host |-> "", path |-> <<>>, query |-> <<>>]

MainEmbedUrl(vimeoId, isRestricted) ==
  [host |-> "player.vimeo.com",
   path |-> <<"video", vimeoId>>,
   query |-> IF isRestricted
             THEN << <<"background", "1">>, <<"autoplay", "0">>, <<"muted", "0">>,
                     <<"controls", "0">>, <<"dnt", "1">>, <<"transparent", "0">>,
                     <<"playsinline", "1">> >>
             ELSE << <<"autoplay", "0">>, <<"muted", "0">>, <<"controls", "0">>,
                     <<"dnt", "1">>, <<"transparent", "0">>, <<"playsinline", "1">> >>]

PreviewEmbedUrl(thumbnailId) ==
  [host |-> "player.vimeo.com",
   path |-> <<"video", thumbnailId>>,
   query |-> << <<"background", "1">>, <<"autoplay", "1">>, <<"loop", "1">>,
                <<"muted", "1">>, <<"controls", "0">>, <<"title", "0">>,
                <<"byline", "0">>, <<"portrait", "0">>, <<"playsinline", "1">> >>]

(***************************************************************************)
(* State.                                                                  *)
(*   lb      the fields of the VimeoLightbox object                        *)
(*   dom     the modal's elements and the page's scroll state              *)
(*   timers  the pending setTimeout callbacks, each with the time left     *)
(*   player  the SDK's player handles and their pending promises           *)
(*   thumb   the tile's .video-thumbnail element and its preview embeds    *)
(*   env     the platform: autoplay restriction, smooth-scroll plugin      *)
(*   hist    history of the calls made, read only by the properties:       *)
(*           opens, the number of openLightbox calls; strict, opens and    *)
(*           closes have alternated; openY, the scroll offset when the     *)
(*           last openLightbox ran; closeY, the offset the closeLightbox   *)
(*           after it asked for (-1: none yet); shownUntil, the time left  *)
(*           to the deadline of the last showCenterToast; pageShows, the   *)
(*           number of pageshow and visibilitychange events; errorEvent,   *)
(*           a preview embed has fired its error event.  An embed's field  *)
(*           seen is history too: whether the tile was visible always,     *)
(*           never or part of the time since the embed was created.        *)
(***************************************************************************)
VARIABLES lb, dom, timers, player, thumb, env, hist, gate

vars == <<lb, dom, timers, player, thumb, env, hist, gate>>

\* The state the controller's methods read and write, as one value.
\* hist.issued and hist.loose log the requests that the step just taken sent
\* to the player handle, loose those sent with no rejection handler: every
\* handler starts with both empty.
M == [lb |-> lb, dom |-> dom, tm |-> timers, pl |-> player, th |-> thumb,
      gh |-> [hist EXCEPT !.issued = <<>>, !.loose = {}, !.echo = FALSE]]

\* a request to the handle whose promise has a rejection handler
Issue(m, request) == [m EXCEPT !.gh.issued = Append(@, request)]

\* a request to the handle whose promise nothing handles
IssueLoose(m, request) ==
  [m EXCEPT !.gh.issued = Append(@, request), !.gh.loose = @ \cup {request}]

\* a handler has run to m; rejects: a promise it left unhandled rejects
Outcome(m, rejects) ==
  [m EXCEPT !.gh.unhandled = @ \/ (rejects /\ m.gh.loose # {})]

ChainKinds == {"unmute", "unmutePlay"}
ChainStages == {"setMuted", "setVolume", "play"}

\* the chains of one kind that have not come to their end
ChainCount(pl, kind) ==
  pl.chains[kind]["setMuted"] + pl.chains[kind]["setVolume"] + pl.chains[kind]["play"]

Commit(m) ==
  /\ lb' = m.lb
  /\ dom' = m.dom
  /\ timers' = m.tm
  /\ player' = m.pl
  /\ thumb' = m.th
  /\ hist' = m.gh

LiveHandles(pl) == {h \in Handles : pl.hstate[h] = "live"}
UnbornHandles(pl) == {h \in Handles : pl.hstate[h] = "unborn"}

\* clearTimeout(this.pauseTimeout)
ClearTracked(toastTimers) == {x \in toastTimers : ~x.tracked}

\* this.pauseTimeout = null without clearTimeout: the timer stays pending
Untrack(toastTimers) == {[x EXCEPT !.tracked = FALSE] : x \in toastTimers}

(***************************************************************************)
(* The controller's methods, each a function from the state before the     *)
(* call to the state after it.                                             *)
(***************************************************************************)
ShowControls(m) == [m EXCEPT !.dom.controlsShown = TRUE]

HideControls(m) == [m EXCEPT !.dom.controlsShown = FALSE]

ShowLoading(m) ==
  IF ~m.lb.allowLoader THEN m
  ELSE IF m.lb.loadingTimeoutId # 0 THEN m
  ELSE [m EXCEPT !.lb.loadingTimeoutId = 1, !.tm.loader = {LoaderDelayMs}]

HideLoading(m) ==
  [m EXCEPT !.tm.loader = IF m.lb.loadingTimeoutId # 0 THEN {} ELSE @,
            !.lb.loadingTimeoutId = 0,
            !.dom.loadingActive = FALSE]

\* a showError that leaves the controls as they are
ShowErrorKeepsControls(m) == [HideLoading(m) EXCEPT !.dom.errorActive = TRUE]

ShowError(m) ==
  HideControls([HideLoading(m) EXCEPT !.dom.errorActive = TRUE])

HideError(m) ==
  ShowControls([m EXCEPT !.dom.errorActive = FALSE])

\* a hideCenterToast without the minimum-time test of line 1046
HideCenterToastUnlocked(m) ==
  [m EXCEPT !.tm.toast = IF m.lb.pauseTimeout # 0 THEN ClearTracked(@) ELSE @,
            !.lb.pauseTimeout = 0,
            !.dom.toastActive = FALSE,
            !.lb.toastLockUntil = 0]

HideCenterToast(m) ==
  IF m.lb.toastLockUntil > 0 THEN m
  ELSE [m EXCEPT !.tm.toast = IF m.lb.pauseTimeout # 0 THEN ClearTracked(@) ELSE @,
                 !.lb.pauseTimeout = 0,
                 !.dom.toastActive = FALSE,
                 !.lb.toastLockUntil = 0]

\* a showCenterToast that arms no auto-hide timer
ShowCenterToastUntimed(m, message, durationMs) ==
  [m EXCEPT !.tm.toast = IF m.lb.pauseTimeout # 0 THEN ClearTracked(@) ELSE @,
            !.lb.pauseTimeout = 0,
            !.dom.toastText = message,
            !.dom.toastActive = TRUE,
            !.lb.toastLockUntil = durationMs,
            !.gh.shownUntil = durationMs]

ShowCenterToast(m, message, durationMs) ==
  [m EXCEPT !.tm.toast = (IF m.lb.pauseTimeout # 0 THEN ClearTracked(@) ELSE @)
                           \cup {[left |-> durationMs, tracked |-> TRUE]},
            !.lb.pauseTimeout = 1,
            !.dom.toastText = message,
            !.dom.toastActive = TRUE,
            !.lb.toastLockUntil = durationMs,
            !.gh.shownUntil = durationMs]

ShowPauseIndicator(m) ==
  ShowCenterToast([m EXCEPT !.tm.toast = IF m.lb.pauseTimeout # 0
                                         THEN ClearTracked(@) ELSE @,
                            !.lb.pauseTimeout = 0],
                  "Paused", ToastDefaultMs)

HidePauseIndicator(m) == HideCenterToast(m)

UpdateTimelinePosition(m, percentage) == [m EXCEPT !.dom.fill = percentage]

ResetControls(m) ==
  LET m1 == [m EXCEPT !.dom.playBtnText = "Play",
                      !.lb.isMuted = TRUE,
                      !.dom.currentTimeText = "0:00",
                      !.dom.totalTimeText = "0:00",
                      !.lb.isPlaying = FALSE,
                      !.lb.videoDuration = Zero,
                      !.lb.isDragging = FALSE,
                      !.lb.pauseTimeout = 0,
                      !.tm.toast = Untrack(@)]
  IN  UpdateTimelinePosition(ShowControls(HidePauseIndicator(m1)), Zero)

\* a recreateIframe that blanks the source of the element in place
RecreateIframeInPlace(m) == [m EXCEPT !.dom.src = EmptySrc]

\* recreateIframe(): the old element is removed and a new one, with an empty
\* source, takes its place (dom.frameFresh: no source has been assigned to
\* the element in the document since it was created)
RecreateIframe(m) == [m EXCEPT !.dom.src = EmptySrc, !.dom.frameFresh = TRUE]

SetupPlayerEvents(m) ==
  IF m.lb.currentPlayer = 0 THEN m
  ELSE LET h == m.lb.currentPlayer
       IN  Issue([ShowControls(m) EXCEPT !.pl.bridges[h] = @ + 1,
                                         !.pl.durPending[h] = @ + 1],
                 "getDuration")

\* openLightbox's scroll lock.  hasSmoother: a ScrollSmoother instance was
\* found; scrollTopOk: its scrollTop() returned (it did not throw).  Fixing
\* the document at top: -y leaves the window itself scrolled to 0.
LockScroll(m, hasSmoother, scrollTopOk) ==
  IF hasSmoother
  THEN [m EXCEPT !.lb.smoother = TRUE,
                 !.lb.hadSmoother = TRUE,
                 !.lb.savedSmootherY = IF scrollTopOk THEN m.dom.scrollY ELSE 0,
                 !.dom.smootherPaused = TRUE]
  ELSE [m EXCEPT !.lb.savedScrollY = m.dom.scrollY,
                 !.dom.htmlTop = TopString(m.dom.scrollY),
                 !.dom.htmlFixed = TRUE,
                 !.dom.scrollY = 0]

\* closeLightbox's scroll unlock; scrollY becomes the position it requests
\* (smoother.scrollTo(y, false) or window.scrollTo(0, y)).
UnlockScroll(m) ==
  IF m.lb.hadSmoother /\ m.lb.smoother
  THEN [m EXCEPT !.dom.scrollY = m.lb.savedSmootherY,
                 !.dom.smootherPaused = FALSE,
                 !.lb.hadSmoother = FALSE,
                 !.lb.smoother = FALSE]
  ELSE LET topStr == m.dom.htmlTop
           targetY == IF topStr # <<>> THEN 2 * Abs(ParseInt(topStr))
                      ELSE m.lb.savedScrollY
       IN  [m EXCEPT !.dom.htmlFixed = FALSE,
                     !.dom.htmlTop = <<>>,
                     !.dom.scrollY = targetY]

\* loadVideo's requests for the desktop (shouldAutoplayDesktop), each with an
\* empty catch
AutoplayDesktop(m) == Issue(Issue(Issue(m, "setMuted"), "setVolume"), "play")

\* loadVideo(vimeoId).  ctorThrows: new Vimeo.Player(...) threw.
\* a loadVideo that leaves the reveal of the controls to the ready callback
LoadVideoWithoutReveal(m, vimeoId, isRestricted, ctorThrows) ==
  LET m1 == [m EXCEPT !.lb.allowLoader = TRUE]
      m2 == HideControls(HideError(ShowLoading(m1)))
      m3 == [m2 EXCEPT !.dom.src = MainEmbedUrl(vimeoId, isRestricted),
                       !.dom.frameFresh = FALSE]
      h  == Min(UnbornHandles(m.pl))
  IN  IF vimeoId = InvalidVideoId THEN ShowError(m2)
      ELSE IF ctorThrows THEN ShowError(m3)
      ELSE [(IF isRestricted THEN m3 ELSE AutoplayDesktop(m3)) EXCEPT
                      !.lb.currentPlayer = h,
                      !.pl.hstate[h] = "live",
                      !.pl.video[h] = vimeoId,
                      !.pl.readyPending = @ \cup {h}]

LoadVideo(m, vimeoId, isRestricted, ctorThrows) ==
  LET m1 == [m EXCEPT !.lb.allowLoader = TRUE]
      m2 == HideControls(HideError(ShowLoading(m1)))
      m3 == [m2 EXCEPT !.dom.src = MainEmbedUrl(vimeoId, isRestricted),
                       !.dom.frameFresh = FALSE]
      h  == Min(UnbornHandles(m.pl))
  IN  IF vimeoId = InvalidVideoId THEN ShowError(m2)
      ELSE IF ctorThrows THEN ShowError(m3)
      ELSE [(IF isRestricted THEN m3 ELSE AutoplayDesktop(m3)) EXCEPT
                      !.lb.currentPlayer = h,
                      !.pl.hstate[h] = "live",
                      !.pl.video[h] = vimeoId,
                      !.pl.readyPending = @ \cup {h},
                      !.tm.controls = @ \cup {ControlsRevealMs}]

\* an openLightbox that loads the tile's preview id instead of its main id
OpenLightboxResultSwapped(m, tile, e, ctorThrows, scrollTopOk) ==
  LET m1 == [m EXCEPT !.dom.title = tile.title, !.dom.active = TRUE]
      m2 == LockScroll(m1, e.smoother, scrollTopOk)
  IN  LoadVideo(m2, tile.thumbnailId, e.restricted, ctorThrows)

OpenLightboxResult(m, tile, e, ctorThrows, scrollTopOk) ==
  LET m1 == [m EXCEPT !.dom.title = tile.title, !.dom.active = TRUE]
      m2 == LockScroll(m1, e.smoother, scrollTopOk)
  IN  LoadVideo(m2, tile.mainVideo, e.restricted, ctorThrows)

\* closeLightbox().  destroyThrows: currentPlayer.destroy() threw, which ends
\* the handler there (the call is not inside a try block).
\* destroy(): the handle's destroy() inside try, the reference cleared after it
DestroyResult(m, destroyThrows) ==
  LET h == m.lb.currentPlayer
  IN  IF h = 0 \/ destroyThrows THEN m
      ELSE [m EXCEPT !.pl.hstate[h] = "destroyed", !.lb.currentPlayer = 0]

CloseLightboxResult(m, destroyThrows) ==
  LET m1 == UnlockScroll([m EXCEPT !.dom.active = FALSE])
      h  == m.lb.currentPlayer
      m2 == IF h = 0 THEN m1
            ELSE [m1 EXCEPT !.pl.hstate[h] = "destroyed", !.lb.currentPlayer = 0]
      m3 == HideLoading(HideError(ResetControls(RecreateIframe(m2))))
  IN  IF h # 0 /\ destroyThrows THEN m1
      ELSE [m3 EXCEPT !.tm.reinit = @ \cup {ReinitDelayMs}]

(***************************************************************************)
(* Thumbnail previews.  One tile carries a .video-thumbnail element when   *)
(* env.thumbs holds; env.thumbTile is that tile.                           *)
(***************************************************************************)
FreeEmbeds(th) == {i \in EmbedIds : th.embeds[i].st = "free"}
AttachedEmbeds(th) == {i \in EmbedIds : th.embeds[i].st = "attached"}

\* createLoopVideoIframe(thumbnail, thumbnailId)
CreateLoopVideoIframe(m, thumbnailId) ==
  IF thumbnailId \in InvalidThumbnailIds THEN m
  ELSE LET i == Min(FreeEmbeds(m.th))
       IN  [m EXCEPT !.th.embeds[i] = [st |-> "attached", loaded |-> FALSE,
                                       src |-> PreviewEmbedUrl(thumbnailId),
                                       seen |-> IF m.th.visible THEN "always"
                                                ELSE "never"],
                     !.tm.fail = @ \cup {[embed |-> i, left |-> FailTimeoutMs]}]

\* initializeThumbnailIframes()
InitializeThumbnailIframes(m, e) ==
  IF ~e.thumbs THEN m
  ELSE LET m1 == [m EXCEPT !.th.embeds =
                     [i \in EmbedIds |-> IF @[i].st = "attached"
                                         THEN [@[i] EXCEPT !.st = "removed"]
                                         ELSE @[i]]]
       IN  IF m.th.sized THEN CreateLoopVideoIframe(m1, e.thumbTile.thumbnailId)
           ELSE IF e.hasResizeObserver THEN [m1 EXCEPT !.th.observers = @ + 1]
           ELSE [m1 EXCEPT !.tm.poll = @ \cup {[left |-> PollIntervalMs,
                                                cap |-> PollCapMs]}]

\* hideStaticImageOnMobile(thumbnail); the iframe it looks at is the first
\* one inside the thumbnail
HideStaticImageOnMobile(m) ==
  IF m.th.mobile
  THEN IF AttachedEmbeds(m.th) # {} /\ m.th.sized
       THEN [m EXCEPT !.th.coverHidden = TRUE]
       ELSE m
  ELSE [m EXCEPT !.th.coverHidden = FALSE]

\* how many embeds a call of initializeThumbnailIframes or a deferred
\* creation would create now
WouldCreate(th, e) ==
  e.thumbs /\ th.sized /\ e.thumbTile.thumbnailId \notin InvalidThumbnailIds

(***************************************************************************)
(* Initial state: a constructed controller (the constructor has run        *)
(* initializeThumbnailIframes), the lightbox closed.                       *)
(***************************************************************************)
(***************************************************************************)
(* The readiness gate in front of the constructor.  gate.api and           *)
(* gate.elements say whether the SDK's global and the page's lightbox      *)
(* markup are there, are still to come, or never come; reschedules counts  *)
(* the setTimeout(initLightbox) calls and waited the milliseconds that a   *)
(* retry of initLightbox has been pending.  initCalls counts the calls of   *)
(* initLightbox, observers the connected mutation observers; clock is the  *)
(* time since the script ran, kept until initLightbox is first called and  *)
(* up to ClockCap, and insertedAt its value when the markup was inserted;  *)
(* waited is kept up to WaitCap.                                           *)
(***************************************************************************)
maxVimeoApiAttempts == 20
INIT_RETRY_DELAY_MS == 100
maxAttempts == 10
TryRetryDelayMs == 500
ObserveWindowMs == 10000
ClockCap == ObserveWindowMs + TryRetryDelayMs

\* the counts of calls and reschedules are kept up to GateLogCap
GateLogCap == maxVimeoApiAttempts + 2
Counted(n) == Min({n + 1, GateLogCap})
WaitCap == INIT_RETRY_DELAY_MS * GateLogCap

\* the script evaluated, tryInitLightbox about to run for the first time
GateStart(api, elements) ==
  [api |-> api, elements |-> elements, initAttempts |-> 0, vimeoApiAttempts |-> 0,
   tryTimer |-> {0}, initTimer |-> {}, errors |-> 0, htmlErrors |-> 0,
   controllers |-> 0, reschedules |-> 0, waited |-> 0, initCalls |-> 0,
   observers |-> 0, clock |-> 0,
   insertedAt |-> IF elements = "present" THEN 0 ELSE -1]

\* the gate passed at the first attempt
GateDone ==
  [api |-> "defined", elements |-> "present", initAttempts |-> 1,
   vimeoApiAttempts |-> 0, tryTimer |-> {}, initTimer |-> {}, errors |-> 0,
   htmlErrors |-> 0, controllers |-> 1, reschedules |-> 0, waited |-> 0,
   initCalls |-> 1, observers |-> 0, clock |-> 0, insertedAt |-> 0]

\* an initLightbox whose attempt test lets one more retry through
InitLightboxOneMore(g) ==
  LET c == [g EXCEPT !.initCalls = Counted(@)]
  IN  IF c.api # "defined"
        THEN IF c.vimeoApiAttempts <= maxVimeoApiAttempts
               THEN [c EXCEPT !.vimeoApiAttempts = @ + 1,
                              !.initTimer = @ \cup {INIT_RETRY_DELAY_MS},
                              !.reschedules = Counted(@)]
               ELSE [c EXCEPT !.errors = @ + 1]
        ELSE IF c.elements # "present"
               THEN [c EXCEPT !.initTimer = @ \cup {INIT_RETRY_DELAY_MS},
                              !.reschedules = Counted(@)]
               ELSE [c EXCEPT !.controllers = @ + 1]

\* initLightbox(), up to new VimeoLightbox()
InitLightboxResult(g) ==
  LET c == [g EXCEPT !.initCalls = Counted(@)]
  IN  IF c.api # "defined"
        THEN IF c.vimeoApiAttempts < maxVimeoApiAttempts
               THEN [c EXCEPT !.vimeoApiAttempts = @ + 1,
                              !.initTimer = @ \cup {INIT_RETRY_DELAY_MS},
                              !.reschedules = Counted(@)]
               ELSE [c EXCEPT !.errors = @ + 1]
        ELSE IF c.elements # "present"
               THEN [c EXCEPT !.initTimer = @ \cup {INIT_RETRY_DELAY_MS},
                              !.reschedules = Counted(@)]
               ELSE [c EXCEPT !.controllers = @ + 1]

\* observeDOMForLightbox(): declared inside initLightbox and called from
\* nowhere, so no step of the model applies it
ObserveDOMForLightbox(g) == [g EXCEPT !.observers = @ + 1]

InitLb ==
  [currentPlayer |-> 0, isPlaying |-> FALSE, isMuted |-> TRUE, videoDuration |-> Zero,
   isDragging |-> FALSE, pauseTimeout |-> 0, toastLockUntil |-> 0,
   loadingTimeoutId |-> 0, allowLoader |-> FALSE, savedScrollY |-> 0,
   smoother |-> FALSE, hadSmoother |-> FALSE, savedSmootherY |-> 0]

InitDom(y) ==
  [active |-> FALSE, title |-> "", src |-> EmptySrc, playBtnText |-> "Play",
   currentTimeText |-> "0:00", totalTimeText |-> "0:00", loadingActive |-> FALSE,
   errorActive |-> FALSE, controlsShown |-> TRUE, toastActive |-> FALSE,
   toastText |-> "", fill |-> Zero, htmlTop |-> <<>>, htmlFixed |-> FALSE,
   scrollY |-> y, smootherPaused |-> FALSE, hoverText |-> "",
   hoverShown |-> FALSE, frameFresh |-> TRUE]

InitTimers ==
  [toast |-> {}, loader |-> {}, controls |-> {}, reinit |-> {},
   fail |-> {}, settle |-> {}, poll |-> {}]

InitPlayer ==
  [hstate |-> [h \in Handles |-> "unborn"],
   readyPending |-> {},
   video |-> [h \in Handles |-> ""],
   bridges |-> [h \in Handles |-> 0],
   durPending |-> [h \in Handles |-> 0],
   chains |-> [kind \in ChainKinds |-> [stage \in ChainStages |-> 0]]]

FreeEmbed == [st |-> "free", loaded |-> FALSE, src |-> EmptySrc, seen |-> "never"]

InitThumb(sized, visible, mobile) ==
  [sized |-> sized, visible |-> visible, mobile |-> mobile, failed |-> FALSE,
   coverHidden |-> FALSE, observers |-> 0, embeds |-> [i \in EmbedIds |-> FreeEmbed]]

InitHist ==
  [opens |-> 0, strict |-> TRUE, openY |-> 0, opened |-> FALSE,
   closeY |-> -1, pageShows |-> 0, errorEvent |-> FALSE, shownUntil |-> 0,
   issued |-> <<>>, loose |-> {}, unhandled |-> FALSE, invalid |-> FALSE,
   loadAge |-> 0, gesture |-> "none", echo |-> FALSE]

\* the constructor, on a page scrolled to y
Constructed(e, y, sized, visible, mobile) ==
  InitializeThumbnailIframes(
    [lb |-> InitLb, dom |-> InitDom(y), tm |-> InitTimers, pl |-> InitPlayer,
     th |-> InitThumb(sized, visible, mobile), gh |-> InitHist], e)

InitWith(e, y, sized, visible, mobile) ==
  LET m == Constructed(e, y, sized, visible, mobile)
  IN  /\ lb = m.lb
      /\ dom = m.dom
      /\ timers = m.tm
      /\ player = m.pl
      /\ thumb = m.th
      /\ env = e
      /\ hist = m.gh
      /\ gate = GateDone

\* The page and the platform: the tiles on the page, the tile that carries
\* the thumbnail, what isAutoplayRestricted() answers, whether a ScrollSmoother
\* and a ResizeObserver exist, whether the SDK's constructor and destroy()
\* can throw, and whether the promises of its requests can reject.
Envs ==
  [tiles : SUBSET Tiles, restricted : BOOLEAN, smoother : BOOLEAN, thumbs : BOOLEAN,
   thumbTile : Tiles, hasResizeObserver : BOOLEAN, faults : BOOLEAN,
   rejects : BOOLEAN]

Playable == {t \in Tiles : t.title = "Demo"}
Broken == {t \in Tiles : t.title = "Broken"}

\* a page without thumbnails or smooth-scroll plugin, scrolled to the top
Init ==
  \E e \in Envs :
    /\ ~e.rejects
    /\ e.tiles = Playable \cup Broken /\ e.faults
    /\ ~e.smoother /\ ~e.thumbs /\ e.hasResizeObserver
    /\ e.thumbTile.title = "Demo"
    /\ InitWith(e, 0, FALSE, FALSE, FALSE)

(***************************************************************************)
(* User actions.                                                           *)
(***************************************************************************)
\* a click on a tile: openLightbox(thumbnail).  The user opens at most
\* MaxHandles times, so at most MaxHandles handles are ever constructed.
OpenLightbox(tile, ctorThrows, scrollTopOk) ==
  /\ hist.opens < MaxHandles
  /\ Commit(OpenLightboxResult(
              [M EXCEPT !.gh.strict = @ /\ ~dom.active, !.gh.openY = dom.scrollY,
                        !.gh.closeY = -1, !.gh.opened = TRUE,
                        !.gh.opens = @ + 1,
                        !.gh.invalid = (tile.mainVideo = InvalidVideoId),
                        !.gh.loadAge = 0],
              tile, env, ctorThrows, scrollTopOk))
  /\ UNCHANGED <<env, gate>>

\* closeLightbox(), as the close button, the backdrop and the Escape key call it
CloseLightbox(destroyThrows) ==
  /\ Commit(CloseLightboxResult(
              [M EXCEPT !.gh.strict = @ /\ dom.active,
                        !.gh.closeY = UnlockScroll(M).dom.scrollY,
                        !.gh.invalid = FALSE],
              destroyThrows))
  /\ UNCHANGED <<env, gate>>

Open == \E tile \in env.tiles, ctorThrows \in BOOLEAN, scrollTopOk \in BOOLEAN :
          /\ (ctorThrows => env.faults)
          /\ (~env.smoother => scrollTopOk)
          /\ OpenLightbox(tile, ctorThrows, scrollTopOk)

\* the close button and the backdrop are inside the lightbox and the Escape
\* handler tests for the active class: the user closes an open lightbox
Close == \E destroyThrows \in BOOLEAN :
           /\ dom.active
           /\ (destroyThrows => env.faults /\ lb.currentPlayer # 0)
           /\ CloseLightbox(destroyThrows)

\* a click on the close button or the backdrop that arrives when the lightbox
\* is no longer active (the second click of a double click): their listeners
\* call closeLightbox() without a test
CloseAgain == \E destroyThrows \in BOOLEAN :
                /\ ~dom.active /\ hist.opened
                /\ (destroyThrows => env.faults /\ lb.currentPlayer # 0)
                /\ CloseLightbox(destroyThrows)

\* destroy(), called by code that holds the controller
Destroy(destroyThrows) ==
  /\ destroyThrows => (env.faults /\ lb.currentPlayer # 0)
  /\ Commit(DestroyResult(M, destroyThrows))
  /\ UNCHANGED <<env, gate>>

\* the user scrolls the page (not while the scroll is locked)
UserScrolls ==
  /\ ~dom.htmlFixed /\ ~dom.smootherPaused
  /\ \E y \in Offsets : dom' = [dom EXCEPT !.scrollY = y]
  /\ hist' = M.gh
  /\ UNCHANGED <<lb, timers, player, thumb, env, gate>>

\* a click on the play button or on the click area: togglePlayPause().  On a
\* restricted platform with the mute flag set it starts a promise chain
\* (setMuted, setVolume[, play]); its first then-callback runs as a
\* microtask behind the handler and sends setMuted, the others run when the
\* request before them has settled (ChainSettles).
\* a togglePlayPause that pauses whenever the video plays
TogglePlayPauseAlwaysPauses(m, isRestricted) ==
  IF m.lb.currentPlayer = 0 THEN m
  ELSE IF m.lb.isPlaying THEN IssueLoose(m, "pause")
  ELSE IF isRestricted /\ m.lb.isMuted
  THEN Issue([m EXCEPT !.pl.chains["unmutePlay"]["setMuted"] = @ + 1], "setMuted")
  ELSE Issue(m, "play")

TogglePlayPauseResult(m, isRestricted) ==
  IF m.lb.currentPlayer = 0 THEN m
  ELSE IF isRestricted /\ m.lb.isMuted
  THEN Issue([m EXCEPT !.pl.chains[IF m.lb.isPlaying THEN "unmute" ELSE "unmutePlay"]
                                  ["setMuted"] = @ + 1],
             "setMuted")
  ELSE IF m.lb.isPlaying THEN IssueLoose(m, "pause")
  ELSE Issue(m, "play")

TogglePlayPause ==
  /\ lb.currentPlayer # 0
  /\ (env.restricted /\ lb.isMuted) =>
        ChainCount(player, IF lb.isPlaying THEN "unmute" ELSE "unmutePlay") < MaxChains
  /\ \E rejects \in BOOLEAN :
       /\ rejects => env.rejects
       /\ LET m == TogglePlayPauseResult(M, env.restricted)
          IN  Commit(Outcome([m EXCEPT !.gh.echo = /\ m.gh.issued # <<>>
                                                  /\ m.gh.issued = hist.issued],
                             rejects))
  /\ UNCHANGED <<env, gate>>

\* the last then-callback of a chain
ChainEnd(m) == HideCenterToast([m EXCEPT !.lb.isMuted = FALSE])

\* the request `stage` of a chain settles.  Fulfilled, the next then-callback
\* sends the next request inside try: with currentPlayer null it throws, the
\* throw is caught and the chain runs on to its end.  Rejected, the chain
\* goes to its catch: empty for "unmute", a play() with nothing behind it for
\* "unmutePlay".
\* a chain whose catch is empty for both kinds
ChainStepWithoutFallback(m, kind, stage, fulfilled) ==
  LET m1   == [m EXCEPT !.pl.chains[kind][stage] = @ - 1]
      next == IF stage = "setMuted" THEN "setVolume"
              ELSE IF stage = "setVolume" /\ kind = "unmutePlay" THEN "play"
              ELSE "end"
  IN  IF fulfilled
        THEN IF next = "end" \/ m.lb.currentPlayer = 0 THEN ChainEnd(m1)
             ELSE Issue([m1 EXCEPT !.pl.chains[kind][next] = @ + 1], next)
        ELSE m1

ChainStep(m, kind, stage, fulfilled) ==
  LET m1   == [m EXCEPT !.pl.chains[kind][stage] = @ - 1]
      next == IF stage = "setMuted" THEN "setVolume"
              ELSE IF stage = "setVolume" /\ kind = "unmutePlay" THEN "play"
              ELSE "end"
  IN  IF fulfilled
        THEN IF next = "end" \/ m.lb.currentPlayer = 0 THEN ChainEnd(m1)
             ELSE Issue([m1 EXCEPT !.pl.chains[kind][next] = @ + 1], next)
        ELSE IF kind = "unmutePlay" /\ m.lb.currentPlayer # 0
               THEN IssueLoose(m1, "play")
               ELSE m1

ChainSettles(kind, stage, fulfilled) ==
  /\ player.chains[kind][stage] > 0
  /\ \E rejects \in BOOLEAN :
       /\ rejects => env.rejects
       /\ Commit(Outcome(ChainStep(M, kind, stage, fulfilled), rejects))
  /\ UNCHANGED <<env, gate>>

(***************************************************************************)
(* The player's promises and events.                                       *)
(***************************************************************************)
\* currentPlayer.ready() fulfils: the then-callback of loadVideo
ReadyResolves(h) ==
  /\ h \in player.readyPending
  /\ LET m1 == [M EXCEPT !.pl.readyPending = @ \ {h}, !.lb.allowLoader = FALSE]
         m2 == SetupPlayerEvents(HideLoading(m1))
         m3 == IF m2.lb.currentPlayer = 0 THEN m2 ELSE Issue(m2, "setVolume")
     IN  Commit(IF env.restricted
                THEN ShowCenterToast(m3, "Tap to unmute", TapToUnmuteMs)
                ELSE m3)
  /\ UNCHANGED <<env, gate>>

\* currentPlayer.ready() rejects: the catch-callback of loadVideo
ReadyRejects(h) ==
  /\ h \in player.readyPending
  /\ Commit(ShowError([M EXCEPT !.pl.readyPending = @ \ {h}]))
  /\ UNCHANGED <<env, gate>>

\* a handle emits events to the bridges registered on it while it is live
Emits(h) == player.hstate[h] = "live" /\ player.bridges[h] > 0

OnPlay(h) ==
  /\ Emits(h)
  /\ LET m1 == [M EXCEPT !.lb.isPlaying = TRUE, !.dom.playBtnText = "Pause"]
     IN  Commit(HideLoading(HidePauseIndicator(m1)))
  /\ UNCHANGED <<env, gate>>

OnPause(h) ==
  /\ Emits(h)
  /\ LET m1 == [M EXCEPT !.lb.isPlaying = FALSE, !.dom.playBtnText = "Play"]
     IN  Commit(ShowPauseIndicator(m1))
  /\ UNCHANGED <<env, gate>>

\* the timeupdate bridge
OnTimeUpdateResult(m, seconds) ==
  LET m1 == [m EXCEPT !.dom.currentTimeText = FormatTime(seconds)]
  IN  IF ~m.lb.isDragging /\ Less(Zero, m.lb.videoDuration)
      THEN UpdateTimelinePosition(m1, Quotient(seconds, m.lb.videoDuration))
      ELSE m1

\* a timeupdate event of handle h; a player reports no time past its video's end
OnTimeUpdate(h, seconds) ==
  /\ Emits(h)
  /\ ~Less(DurationOf(player.video[h]), seconds)
  /\ Commit(OnTimeUpdateResult(M, seconds))
  /\ UNCHANGED <<env, gate>>

\* getDuration() of handle h fulfils: the then-callback of setupPlayerEvents
DurationResolves(h) ==
  /\ player.durPending[h] > 0
  /\ Commit([M EXCEPT !.pl.durPending[h] = @ - 1,
                      !.lb.videoDuration = DurationOf(player.video[h]),
                      !.dom.totalTimeText = FormatTime(DurationOf(player.video[h]))])
  /\ UNCHANGED <<env, gate>>

\* getDuration() of handle h rejects: setupPlayerEvents chains a then-callback
\* and no catch
DurationRejects(h) ==
  /\ env.rejects
  /\ player.durPending[h] > 0
  /\ Commit([M EXCEPT !.pl.durPending[h] = @ - 1, !.gh.unhandled = TRUE])
  /\ UNCHANGED <<env, gate>>

(***************************************************************************)
(* The timeline.  Each handler computes its fraction from the pointer's    *)
(* clientX and the track's rectangle.                                      *)
(***************************************************************************)
ClickPercentage(clientX, rect) ==
  MathMax(Zero, MathMin(One, Divide(clientX - rect.left, rect.width)))

HoverPercentage(clientX, rect) ==
  MathMax(Zero, MathMin(One, Divide(clientX - rect.left, rect.width)))

DragPercentage(clientX, rect) ==
  MathMax(Zero, MathMin(One, Divide(clientX - rect.left, rect.width)))

HandleTimelineClick(m, clientX, rect) ==
  IF m.lb.currentPlayer = 0 \/ m.lb.videoDuration = Zero THEN m
  ELSE UpdateTimelinePosition(IssueLoose(m, "setCurrentTime"),
                              ClickPercentage(clientX, rect))

HandleTimelineHover(m, clientX, rect) ==
  IF m.lb.videoDuration = Zero THEN m
  ELSE [m EXCEPT !.dom.hoverText =
                    FormatTime(Times(HoverPercentage(clientX, rect), m.lb.videoDuration)),
                 !.dom.hoverShown = TRUE]

\* startDragging(e) of a mouse event
StartDragging(m) == [m EXCEPT !.lb.isDragging = TRUE, !.dom.hoverShown = TRUE]

\* startDrag(e.touches[0]): startDragging sets the flag and then calls
\* preventDefault on the Touch, which has no such method, so the listener
\* ends there with a TypeError: the label is not shown, handleTimelineDrag
\* and the preventDefault of the touchstart event are not reached
StartDragTouch(m) == [m EXCEPT !.lb.isDragging = TRUE]

HandleTimelineDrag(m, clientX, rect) ==
  IF m.lb.currentPlayer = 0 \/ m.lb.videoDuration = Zero THEN m
  ELSE LET percentage == DragPercentage(clientX, rect)
       IN  [UpdateTimelinePosition(IssueLoose(m, "setCurrentTime"), percentage) EXCEPT
              !.dom.hoverText = FormatTime(Times(percentage, m.lb.videoDuration)),
              !.dom.hoverShown = TRUE]

StopDragging(m) == [m EXCEPT !.lb.isDragging = FALSE, !.dom.hoverShown = FALSE]

\* hist.gesture: the pointer gesture on the timeline: "mouse" or "touch"
\* from the press to the release, "click" from the release of a mouse over
\* the timeline until the browser has delivered the click of the gesture.
\* A click on the timeline of the open lightbox: the click of a gesture, or
\* one made without the pointer.
TimelineClick(clientX, rect) ==
  /\ dom.active /\ rect.width > 0
  /\ hist.gesture \in {"none", "click"}
  /\ \E rejects \in BOOLEAN :
       /\ rejects => env.rejects
       /\ Commit(Outcome(IF lb.isDragging THEN [M EXCEPT !.gh.gesture = "none"]
                         ELSE HandleTimelineClick([M EXCEPT !.gh.gesture = "none"],
                                                  clientX, rect), rejects))
  /\ UNCHANGED <<env, gate>>

\* the pointer moves over the timeline of the open lightbox
TimelineHover(clientX, rect) ==
  /\ dom.active /\ rect.width > 0
  /\ Commit(HandleTimelineHover(M, clientX, rect))
  /\ UNCHANGED <<env, gate>>

\* mousedown, or touchstart (touch), on the timeline or its handle
TimelineDown(clientX, rect, touch) ==
  /\ dom.active /\ rect.width > 0
  /\ hist.gesture = "none"
  /\ \E rejects \in BOOLEAN :
       /\ rejects => env.rejects
       /\ Commit(Outcome(
            IF touch THEN StartDragTouch([M EXCEPT !.gh.gesture = "touch"])
            ELSE HandleTimelineDrag(StartDragging([M EXCEPT !.gh.gesture = "mouse"]),
                                    clientX, rect), rejects))
  /\ UNCHANGED <<env, gate>>

\* mousemove or touchmove anywhere in the document; by then the layout can
\* have changed, a track that is not rendered answers an empty rectangle
DocumentMove(clientX, rect) ==
  /\ lb.isDragging
  /\ \E rejects \in BOOLEAN :
       /\ rejects => env.rejects
       /\ Commit(Outcome(HandleTimelineDrag(M, clientX, rect), rejects))
  /\ UNCHANGED <<env, gate>>

\* mouseup or touchend anywhere in the document, over the timeline (over) or
\* elsewhere.  A mouse released over the timeline is followed by a click; the
\* mouse events a browser makes up after a touch are a gesture of their own.
DocumentUp(over) ==
  /\ hist.gesture \in {"mouse", "touch"}
  /\ LET m == [M EXCEPT !.gh.gesture =
                          IF over /\ hist.gesture = "mouse" THEN "click" ELSE "none"]
     IN  Commit(IF lb.isDragging THEN StopDragging(m) ELSE m)
  /\ UNCHANGED <<env, gate>>

\* touchcancel: the browser takes the touch over; no listener is registered
\* for it
TouchCancel ==
  /\ hist.gesture = "touch"
  /\ Commit([M EXCEPT !.gh.gesture = "none"])
  /\ UNCHANGED <<env, gate>>

(***************************************************************************)
(* The page around the thumbnail: its layout, the events of its preview    *)
(* embeds, page restores.                                                  *)
(***************************************************************************)
\* pageshow of a restored page, or visibilitychange to visible:
\* reinitThumbnails()
PageShown ==
  /\ hist.pageShows < MaxEmbeds - 1
  /\ Commit([M EXCEPT !.tm.reinit = @ \cup {ReinitDelayMs}, !.gh.pageShows = @ + 1])
  /\ UNCHANGED <<env, gate>>

\* the tile scrolls into or out of the viewport, or is shown or hidden
\* (isElementVisible answers visible from now on)
TileVisibility(visible) ==
  /\ thumb.visible # visible
  /\ visible => thumb.sized
  /\ Commit([M EXCEPT !.th.visible = visible,
                      !.th.embeds = [i \in EmbedIds |->
                         IF @[i].seen = (IF visible THEN "never" ELSE "always")
                         THEN [@[i] EXCEPT !.seen = "mixed"] ELSE @[i]]])
  /\ UNCHANGED <<env, gate>>

\* n resize observers report the tile's size, one after the other
RECURSIVE ObserversFire(_, _, _)
ObserversFire(m, n, thumbnailId) ==
  IF n = 0 THEN m
  ELSE ObserversFire(CreateLoopVideoIframe(m, thumbnailId), n - 1, thumbnailId)

\* layout gives the tile a size: every pending resize observer disconnects
\* and creates an embed
ThumbResized ==
  /\ env.thumbs /\ ~thumb.sized
  /\ (env.thumbTile.thumbnailId \notin InvalidThumbnailIds) =>
        Cardinality(FreeEmbeds(thumb)) >= thumb.observers
  /\ Commit(ObserversFire([M EXCEPT !.th.sized = TRUE, !.th.observers = 0],
                          thumb.observers, env.thumbTile.thumbnailId))
  /\ UNCHANGED <<env, gate>>

\* a load listener that leaves the embed's failure timer running
EmbedLoadsKeepsTimer(i) ==
  /\ thumb.embeds[i].st = "attached" /\ ~thumb.embeds[i].loaded
  /\ Commit([M EXCEPT !.th.embeds[i].loaded = TRUE,
                      !.tm.settle = @ \cup {[embed |-> i, left |-> SettleDelayMs]}])
  /\ UNCHANGED <<env, gate>>

\* the load event of an embed in the document
EmbedLoads(i) ==
  /\ thumb.embeds[i].st = "attached" /\ ~thumb.embeds[i].loaded
  /\ Commit([M EXCEPT !.th.embeds[i].loaded = TRUE,
                      !.tm.fail = {x \in @ : x.embed # i},
                      !.tm.settle = @ \cup {[embed |-> i, left |-> SettleDelayMs]}])
  /\ UNCHANGED <<env, gate>>

\* the error event of an embed in the document
EmbedErrors(i) ==
  /\ thumb.embeds[i].st = "attached" /\ ~thumb.embeds[i].loaded
  /\ Commit([M EXCEPT !.th.failed = TRUE, !.gh.errorEvent = TRUE])
  /\ UNCHANGED <<env, gate>>

\* errorTimeout of an embed
FailTimerFires(x) ==
  /\ x \in timers.fail /\ x.left = 0
  /\ LET m1 == [M EXCEPT !.tm.fail = @ \ {x}]
     IN  Commit(IF ~thumb.visible THEN m1 ELSE [m1 EXCEPT !.th.failed = TRUE])
  /\ UNCHANGED <<env, gate>>

\* the check one second after an embed's load event; an embed that is no
\* longer in the document has no rendered size
SettleTimerFires(x) ==
  /\ x \in timers.settle /\ x.left = 0
  /\ LET m1 == [M EXCEPT !.tm.settle = @ \ {x}]
     IN  Commit(IF ~thumb.visible THEN m1
                ELSE IF thumb.embeds[x.embed].st # "attached" \/ ~thumb.sized
                THEN [m1 EXCEPT !.th.failed = TRUE]
                ELSE HideStaticImageOnMobile(m1))
  /\ UNCHANGED <<env, gate>>

\* the window is resized across the 768px line or within one side of it:
\* handleMobileImageVisibility()
WindowResized(mobile) ==
  /\ env.thumbs
  /\ Commit(HideStaticImageOnMobile([M EXCEPT !.th.mobile = mobile]))
  /\ UNCHANGED <<env, gate>>

(***************************************************************************)
(* Timers and the clock.                                                   *)
(***************************************************************************)
\* the times left of all pending timers
TimesLeft ==
  {x.left : x \in timers.toast} \cup timers.loader \cup timers.controls
    \cup timers.reinit \cup {x.left : x \in timers.fail}
    \cup {x.left : x \in timers.settle}
    \cup {x.left : x \in timers.poll} \cup {x.cap : x \in timers.poll}
    \cup gate.tryTimer \cup gate.initTimer

\* the toast's auto-hide callback
ToastTimerFires(x) ==
  /\ x \in timers.toast
  /\ x.left = 0
  /\ Commit(HideCenterToast([M EXCEPT !.tm.toast = @ \ {x}]))
  /\ UNCHANGED <<env, gate>>

\* the loader's delayed display
LoaderTimerFires ==
  /\ 0 \in timers.loader
  /\ Commit([M EXCEPT !.tm.loader = {},
                      !.lb.loadingTimeoutId = 0,
                      !.dom.loadingActive = IF M.lb.allowLoader THEN TRUE ELSE @])
  /\ UNCHANGED <<env, gate>>

\* loadVideo's delayed showControls
ControlsTimerFires ==
  /\ 0 \in timers.controls
  /\ Commit(ShowControls([M EXCEPT !.tm.controls = @ \ {0}]))
  /\ UNCHANGED <<env, gate>>

\* the delayed initializeThumbnailIframes of closeLightbox and reinitThumbnails
ReinitTimerFires ==
  /\ 0 \in timers.reinit
  /\ WouldCreate(thumb, env) => FreeEmbeds(thumb) # {}
  /\ Commit(InitializeThumbnailIframes([M EXCEPT !.tm.reinit = @ \ {0}], env))
  /\ UNCHANGED <<env, gate>>

Max0(n) == IF n < 0 THEN 0 ELSE n

\* d milliseconds pass: to the next timer, or a pause of the user's
Elapse ==
  /\ 0 \notin TimesLeft
  /\ \E d \in TimesLeft \cup ThinkTimes :
       /\ \A left \in TimesLeft : d <= left
       /\ timers' =
            [toast    |-> {[x EXCEPT !.left = @ - d] : x \in timers.toast},
             loader   |-> {left - d : left \in timers.loader},
             controls |-> {left - d : left \in timers.controls},
             reinit   |-> {left - d : left \in timers.reinit},
             fail     |-> {[x EXCEPT !.left = @ - d] : x \in timers.fail},
             settle   |-> {[x EXCEPT !.left = @ - d] : x \in timers.settle},
             poll     |-> {[x EXCEPT !.left = @ - d, !.cap = @ - d] : x \in timers.poll}]
       /\ lb' = [lb EXCEPT !.toastLockUntil = Max0(@ - d)]
       /\ hist' = [hist EXCEPT !.shownUntil = Max0(@ - d),
                               !.issued = <<>>, !.loose = {},
                               !.loadAge = Min({@ + d, LoaderDelayMs})]
       /\ gate' = [gate EXCEPT !.tryTimer = {left - d : left \in @},
                               !.initTimer = {left - d : left \in @},
                               !.waited = IF gate.initTimer = {} THEN @
                                          ELSE Min({@ + d, WaitCap}),
                               !.clock = IF gate.initCalls > 0 THEN @
                                         ELSE Min({@ + d, ClockCap})]
  /\ UNCHANGED <<dom, player, thumb, env>>

(***************************************************************************)
(* The session: opening and closing, the player's signals, taps, toasts.   *)
(***************************************************************************)
Next ==
  \/ Open
  \/ Close
  \/ TogglePlayPause
  \/ \E kind \in ChainKinds, stage \in ChainStages, fulfilled \in BOOLEAN :
       ChainSettles(kind, stage, fulfilled)
  \/ \E h \in Handles : ReadyResolves(h)
  \/ \E h \in Handles : ReadyRejects(h)
  \/ \E h \in Handles : OnPlay(h)
  \/ \E h \in Handles : OnPause(h)
  \/ \E x \in timers.toast : ToastTimerFires(x)
  \/ LoaderTimerFires
  \/ ControlsTimerFires
  \/ ReinitTimerFires
  \/ Elapse

Spec == Init /\ [][Next]_vars

(***************************************************************************)
(* Scrolling: a page scrolled anywhere, with or without the smooth-scroll  *)
(* plugin, the clock standing still.                                       *)
(***************************************************************************)
InitScroll ==
  \E e \in Envs, y \in Offsets :
    /\ ~e.rejects
    /\ e.tiles = Playable /\ ~e.faults
    /\ ~e.thumbs /\ e.hasResizeObserver /\ ~e.restricted
    /\ e.thumbTile.title = "Demo"
    /\ InitWith(e, y, FALSE, FALSE, FALSE)

NextScroll ==
  \/ Open
  \/ Close
  \/ UserScrolls
  \/ \E h \in Handles : ReadyResolves(h)
  \/ \E h \in Handles : OnPlay(h)
  \/ \E h \in Handles : OnPause(h)

SpecScroll == InitScroll /\ [][NextScroll]_vars

\* the sessions of SpecScroll with closes of a lightbox that is not open
NextReclose ==
  \/ Open
  \/ Close
  \/ CloseAgain
  \/ UserScrolls
  \/ \E h \in Handles : ReadyResolves(h)

SpecReclose == InitScroll /\ [][NextReclose]_vars

\* C5: for every scroll offset y at the moment openLightbox runs and for both
\* scroll-lock paths, the scroll position the following closeLightbox asks
\* for equals y.
CloseRestoresOpenOffset == hist.closeY # -1 => hist.closeY = hist.openY

(***************************************************************************)
(* The timeline: time updates, clicks, hovers and drags, the clock         *)
(* standing still.                                                         *)
(***************************************************************************)
InitTimeline ==
  \E e \in Envs :
    /\ ~e.rejects
    /\ e.tiles = Playable /\ ~e.faults /\ ~e.restricted
    /\ ~e.smoother /\ ~e.thumbs /\ e.hasResizeObserver
    /\ e.thumbTile.title = "Demo"
    /\ InitWith(e, 0, FALSE, FALSE, FALSE)

NextTimeline ==
  \/ Open
  \/ Close
  \/ \E h \in Handles : ReadyResolves(h)
  \/ \E h \in Handles : DurationResolves(h)
  \/ \E h \in Handles, seconds \in Seconds : OnTimeUpdate(h, seconds)
  \/ \E clientX \in PointerXs, rect \in TrackRects : TimelineClick(clientX, rect)
  \/ \E clientX \in PointerXs, rect \in TrackRects : TimelineHover(clientX, rect)
  \/ \E clientX \in PointerXs, rect \in TrackRects, touch \in BOOLEAN :
       TimelineDown(clientX, rect, touch)
  \/ \E clientX \in PointerXs, rect \in TrackRects : DocumentMove(clientX, rect)
  \/ \E over \in BOOLEAN : DocumentUp(over)
  \/ TouchCancel

SpecTimeline == InitTimeline /\ [][NextTimeline]_vars

\* a number within [0, 1]
InUnit(v) == v.k = "fin" /\ 0 <= v.n /\ v.n <= v.d

\* clamp((x - left) / width, 0, 1) for a rectangle of positive width
Clamped(x, rect) ==
  IF x <= rect.left THEN Zero
  ELSE IF x >= rect.left + rect.width THEN One
  ELSE Fin(x - rect.left, rect.width)

\* C6: the fraction a click, a hover or a drag computes from the pointer x and
\* the track rectangle lies in [0,1] for every x, and for a rectangle of
\* positive width it is clamp((x - left) / width, 0, 1), the same in the three
\* handlers (the hover shows the time at that fraction).
SeekFractionIsClamped ==
  [][\A x \in PointerXs, rect \in TrackRects :
       LET seeking == lb.currentPlayer # 0 /\ lb.videoDuration # Zero
           byClick == TimelineClick(x, rect) /\ ~lb.isDragging /\ seeking
           byDrag  == /\ \/ TimelineDown(x, rect, FALSE)
                         \/ DocumentMove(x, rect)
                      /\ seeking
           byHover == TimelineHover(x, rect) /\ lb.videoDuration # Zero
       IN  /\ (byClick \/ byDrag) =>
                /\ InUnit(dom'.fill)
                /\ rect.width > 0 => dom'.fill = Clamped(x, rect)
           /\ (byHover /\ rect.width > 0) =>
                dom'.hoverText = FormatTime(Times(Clamped(x, rect), lb.videoDuration))
    ]_vars

\* floor(s / 60), a colon, floor(s mod 60) in two digits
ClockText(seconds) ==
  LET whole == seconds.n \div seconds.d
  IN  ToDecimal(whole \div 60) \o ":" \o DigitChar[((whole % 60) \div 10) + 1]
        \o DigitChar[((whole % 60) % 10) + 1]

\* C7: a timeupdate event reporting s seconds, the cached duration being D > 0,
\* makes the displayed current time floor(s/60):floor(s mod 60) in two digits;
\* when not dragging the fill becomes s/D, when dragging it stays as it was.
TimeUpdateShowsTimeAndFill ==
  [][\A h \in Handles, seconds \in Seconds :
       (OnTimeUpdate(h, seconds) /\ Less(Zero, lb.videoDuration)) =>
          /\ dom'.currentTimeText = ClockText(seconds)
          /\ ~lb.isDragging =>
                /\ dom'.fill.k = "fin"
                /\ dom'.fill.n * seconds.d * lb.videoDuration.n
                     = seconds.n * lb.videoDuration.d * dom'.fill.d
          /\ lb.isDragging => dom'.fill = dom.fill
    ]_vars

\* thirty seconds into a video of two minutes
HalfMinuteOfTwo ==
  /\ lb.videoDuration = Fin(120, 1)
  /\ ~lb.isDragging
  /\ dom.currentTimeText = "0:30"
  /\ dom.fill = Fin(1, 4)

(***************************************************************************)
(* Closing: the lightbox closed from every state of a session, a drag in   *)
(* progress, a loader pending or shown and the error state included.       *)
(***************************************************************************)
NextClose ==
  \/ Open
  \/ Close
  \/ \E h \in Handles : ReadyResolves(h)
  \/ \E h \in Handles : ReadyRejects(h)
  \/ \E h \in Handles : DurationResolves(h)
  \/ \E h \in Handles : OnPlay(h)
  \/ \E h \in Handles : OnTimeUpdate(h, Fin(30, 1))
  \/ \E rect \in TrackRects, touch \in BOOLEAN : TimelineDown(2, rect, touch)
  \/ \E x \in timers.toast : ToastTimerFires(x)
  \/ LoaderTimerFires
  \/ ControlsTimerFires
  \/ ReinitTimerFires
  \/ Elapse

SpecClose == Init /\ [][NextClose]_vars

(***************************************************************************)
(* Thumbnail previews: a tile with a preview, its embeds failing or        *)
(* loading, page restores re-creating them, the clock running.             *)
(***************************************************************************)
InitThumbs ==
  \E e \in Envs, sized \in BOOLEAN, visible \in BOOLEAN :
    /\ ~e.rejects
    /\ e.tiles = Playable /\ ~e.faults /\ ~e.restricted /\ ~e.smoother
    /\ e.thumbs /\ e.hasResizeObserver /\ e.thumbTile.title = "Demo"
    /\ visible => sized
    /\ InitWith(e, 0, sized, visible, FALSE)

NextThumbs ==
  \/ PageShown
  \/ \E visible \in BOOLEAN : TileVisibility(visible)
  \/ ThumbResized
  \/ \E i \in EmbedIds : EmbedLoads(i)
  \/ \E i \in EmbedIds : EmbedErrors(i)
  \/ \E x \in timers.fail : FailTimerFires(x)
  \/ \E x \in timers.settle : SettleTimerFires(x)
  \/ \E mobile \in BOOLEAN : WindowResized(mobile)
  \/ ReinitTimerFires
  \/ Elapse

SpecThumbs == InitThumbs /\ [][NextThumbs]_vars

\* C8: for a preview embed whose load event has not fired: while the tile has
\* been visible since the embed's creation, the tile is not marked failed
\* before the embed's 5000 ms have passed (no embed having fired an error
\* event) and is marked once they have; while the tile has been hidden since
\* the embed's creation, it is not marked failed.
FailureMarkAtFiveSeconds ==
  \A i \in EmbedIds :
    (thumb.embeds[i].st = "attached" /\ ~thumb.embeds[i].loaded) =>
      LET pending == {x \in timers.fail : x.embed = i}
      IN  /\ (/\ thumb.embeds[i].seen = "always"
               /\ \E x \in pending : x.left > 0
               /\ ~hist.errorEvent) => ~thumb.failed
          /\ (thumb.embeds[i].seen = "always" /\ pending = {}) => thumb.failed
          /\ (thumb.embeds[i].seen = "never" /\ ~hist.errorEvent) => ~thumb.failed

(***************************************************************************)
(* Start-up: the script on a page whose SDK and markup may be there, come  *)
(* late or never come.  Until a controller is constructed lb, timers,      *)
(* player and thumb hold the values the constructor starts from.           *)
(***************************************************************************)
\* initLightbox() called with the gate at g
InitLightbox(g) ==
  /\ gate' = InitLightboxResult(g)
  /\ IF gate'.controllers > g.controllers
       THEN Commit(Constructed(env, dom.scrollY, thumb.sized, thumb.visible, thumb.mobile))
       ELSE UNCHANGED <<lb, dom, timers, player, thumb, hist>>
  /\ UNCHANGED env

\* a tryInitLightbox whose failed check also uses up an API attempt
TryInitLightboxShared ==
  /\ 0 \in gate.tryTimer
  /\ LET g == [gate EXCEPT !.tryTimer = @ \ {0}, !.initAttempts = @ + 1]
     IN  IF g.elements = "present"
           THEN InitLightbox(g)
           ELSE /\ gate' = IF g.initAttempts < maxAttempts
                             THEN [g EXCEPT !.tryTimer = @ \cup {TryRetryDelayMs},
                                            !.vimeoApiAttempts = @ + 1]
                             ELSE [g EXCEPT !.htmlErrors = @ + 1]
                /\ UNCHANGED <<lb, dom, timers, player, thumb, env, hist>>

\* a tryInitLightbox that goes on polling after it has called initLightbox
TryInitLightboxKeepsPolling ==
  /\ 0 \in gate.tryTimer
  /\ LET g == [gate EXCEPT !.tryTimer = @ \ {0}, !.initAttempts = @ + 1]
         again == IF g.initAttempts < maxAttempts
                    THEN [g EXCEPT !.tryTimer = @ \cup {TryRetryDelayMs}]
                    ELSE g
     IN  IF g.elements = "present"
           THEN InitLightbox(again)
           ELSE /\ gate' = IF g.initAttempts < maxAttempts
                             THEN again
                             ELSE [g EXCEPT !.htmlErrors = @ + 1]
                /\ UNCHANGED <<lb, dom, timers, player, thumb, env, hist>>

\* tryInitLightbox(): at DOMContentLoaded, at once, or from its retry timer
TryInitLightbox ==
  /\ 0 \in gate.tryTimer
  /\ LET g == [gate EXCEPT !.tryTimer = @ \ {0}, !.initAttempts = @ + 1]
     IN  IF g.elements = "present"
           THEN InitLightbox(g)
           ELSE /\ gate' = IF g.initAttempts < maxAttempts
                             THEN [g EXCEPT !.tryTimer = @ \cup {TryRetryDelayMs}]
                             ELSE [g EXCEPT !.htmlErrors = @ + 1]
                /\ UNCHANGED <<lb, dom, timers, player, thumb, env, hist>>

\* the retry timer of initLightbox
InitTimerFires ==
  /\ 0 \in gate.initTimer
  /\ InitLightbox([gate EXCEPT !.initTimer = @ \ {0}])

\* the SDK's script finishes loading
VimeoLoads ==
  /\ gate.api = "pending"
  /\ gate' = [gate EXCEPT !.api = "defined"]
  /\ UNCHANGED <<lb, dom, timers, player, thumb, env, hist>>

\* the page builder inserts the lightbox markup
ElementsAppear ==
  /\ gate.elements = "pending"
  /\ gate' = [gate EXCEPT !.elements = "present", !.insertedAt = gate.clock]
  /\ UNCHANGED <<lb, dom, timers, player, thumb, env, hist>>

\* the page builder takes the lightbox markup out of the document, to put
\* it back later (back) or for good
ElementsRemoved(back) ==
  /\ gate.elements = "present"
  /\ gate' = [gate EXCEPT !.elements = IF back THEN "pending" ELSE "removed"]
  /\ UNCHANGED <<lb, dom, timers, player, thumb, env, hist>>

InitGate ==
  \E e \in Envs, api \in {"defined", "pending", "never"},
     elements \in {"present", "pending", "never"} :
    /\ ~e.rejects
    /\ e.tiles = Playable /\ ~e.faults /\ ~e.smoother /\ ~e.restricted
    /\ ~e.thumbs /\ e.hasResizeObserver /\ e.thumbTile \in Playable
    /\ lb = InitLb /\ dom = InitDom(0) /\ timers = InitTimers
    /\ player = InitPlayer /\ thumb = InitThumb(TRUE, TRUE, FALSE)
    /\ env = e /\ hist = InitHist
    /\ gate = GateStart(api, elements)

NextGate ==
  \/ TryInitLightbox
  \/ InitTimerFires
  \/ VimeoLoads
  \/ ElementsAppear
  \/ \E back \in BOOLEAN : ElementsRemoved(back)
  \/ Elapse

SpecGate == InitGate /\ [][NextGate]_vars

\* the timers of the gate run when they are due, and time passes
SpecGateFair ==
  /\ SpecGate
  /\ WF_vars(TryInitLightbox) /\ WF_vars(InitTimerFires) /\ WF_vars(Elapse)

\* C23: whatever the timing of the API's arrival and of the markup's
\* insertion and removal, at most one controller is constructed.
OneControllerAtMost == gate.controllers <= 1

\* the controller constructed after retries of both loops: markup and API
\* came late
ConstructedAfterBothWaits ==
  /\ gate.controllers = 1
  /\ gate.initAttempts > 1 /\ gate.vimeoApiAttempts > 0

\* C24: in every execution, eventually the controller has been constructed
\* or no retry timer is pending.
GateComesToRest ==
  <>(gate.controllers > 0 \/ (gate.tryTimer = {} /\ gate.initTimer = {}))

\* C10: if the video-player API never becomes available, initLightbox
\* reschedules itself at most maxVimeoApiAttempts (20) times, each retry
\* 100 ms after the call that scheduled it, and reports the initialization
\* error once; from then on no retry timer is pending; and no controller is
\* ever constructed.
GateGivesUpAfterTwentyRetries ==
  gate.api = "never" =>
    /\ gate.reschedules <= maxVimeoApiAttempts
    /\ gate.reschedules = gate.vimeoApiAttempts
    /\ Cardinality(gate.initTimer) <= 1
    /\ \A left \in gate.initTimer :
         left <= INIT_RETRY_DELAY_MS
         /\ gate.waited = INIT_RETRY_DELAY_MS * gate.reschedules - left
    /\ gate.initTimer = {} => gate.waited = INIT_RETRY_DELAY_MS * gate.reschedules
    /\ gate.errors <= 1
    /\ gate.errors = 1 =>
         /\ gate.reschedules = maxVimeoApiAttempts
         /\ gate.initTimer = {} /\ gate.tryTimer = {}
    /\ gate.controllers = 0

\* the error reported after twenty retries, two seconds of waiting behind
GaveUpAfterTwoSeconds ==
  /\ gate.api = "never"
  /\ gate.errors = 1 /\ gate.reschedules = 20 /\ gate.waited = 2000
  /\ gate.initTimer = {} /\ gate.controllers = 0

\* C11: tryInitLightbox makes at most maxAttempts (10) readiness checks,
\* each 500 ms after the one before; if the markup never appears it reports
\* the failure once, after the tenth check, and nothing is scheduled from
\* then on; the checks of the markup never use up API attempts (markup that
\* never appears leaves the API counter at 0) and the API retries never add
\* to the markup counter (they run with no markup check pending, and all
\* twenty are there however many markup checks were made).
DomBudgetIsTenChecks ==
  /\ gate.initAttempts <= maxAttempts
  /\ Cardinality(gate.tryTimer) <= 1
  /\ \A left \in gate.tryTimer :
       /\ left <= TryRetryDelayMs
       /\ gate.clock = TryRetryDelayMs * gate.initAttempts - left
  /\ gate.htmlErrors <= 1
  /\ gate.htmlErrors = 1 =>
       /\ gate.initAttempts = maxAttempts
       /\ gate.tryTimer = {} /\ gate.initTimer = {}
       /\ gate.clock >= TryRetryDelayMs * (maxAttempts - 1)
  /\ gate.elements = "never" =>
       /\ gate.vimeoApiAttempts = 0 /\ gate.initCalls = 0
       /\ gate.controllers = 0
  /\ gate.initCalls > 0 => (gate.tryTimer = {} /\ gate.htmlErrors = 0)
  /\ (gate.api = "never" /\ gate.errors = 1) =>
       gate.vimeoApiAttempts = maxVimeoApiAttempts

\* the failure reported at the tenth check, four and a half seconds in, with
\* the API counter untouched
GaveUpOnMarkupAfterTenChecks ==
  /\ gate.elements = "never" /\ gate.htmlErrors = 1
  /\ gate.initAttempts = 10 /\ gate.clock = 4500
  /\ gate.vimeoApiAttempts = 0 /\ gate.tryTimer = {}

\* C12: markup that was absent at all the readiness checks and is inserted
\* within the 10 seconds of observation finds a mutation observer connected
\* that calls initLightbox, once; with nothing inserted no observer is
\* connected after the 10 seconds.
LateMarkupIsActivatedOnce ==
  /\ (/\ gate.htmlErrors = 1
      /\ gate.elements = "present"
      /\ gate.insertedAt <= ObserveWindowMs) =>
       (gate.observers = 1 \/ gate.initCalls = 1)
  /\ (gate.elements # "present" /\ gate.clock > ObserveWindowMs) =>
       gate.observers = 0

(***************************************************************************)
(* Tiles: a page with every kind of tile, one of them carrying the         *)
(* preview, on either kind of platform, the clock standing still.          *)
(***************************************************************************)
InitTiles ==
  \E e \in Envs, sized \in BOOLEAN :
    /\ ~e.rejects
    /\ e.tiles = Tiles /\ e.faults /\ ~e.smoother
    /\ e.thumbs /\ e.hasResizeObserver
    /\ InitWith(e, 0, sized, FALSE, FALSE)

NextTiles ==
  \/ Open
  \/ Close
  \/ \E h \in Handles : ReadyResolves(h)
  \/ ThumbResized

SpecTiles == InitTiles /\ [][NextTiles]_vars

HasParam(url, key, value) == \E j \in 1..Len(url.query) : url.query[j] = <<key, value>>
HasKey(url, key) == \E j \in 1..Len(url.query) : url.query[j][1] = key

\* what opening from the tile leaves: its title, the modal embed on the
\* /video/m path of its main id, background=1 exactly on a restricted
\* platform, autoplay=0; and every preview embed on the /video/p path of the
\* preview id of the tile that carries it
OpenedFrom(tile) ==
  /\ dom'.title = tile.title
  /\ dom'.src.path = <<"video", tile.mainVideo>>
  /\ env.restricted => HasParam(dom'.src, "background", "1")
  /\ ~env.restricted => ~HasKey(dom'.src, "background")
  /\ HasParam(dom'.src, "autoplay", "0")
  /\ \A i \in AttachedEmbeds(thumb') :
        thumb'.embeds[i].src.path = <<"video", env.thumbTile.thumbnailId>>

\* C9, as the spec states it: for every tile (m, p, t), opening the lightbox
\* from it sets the title to t and the modal embed URL to /video/m, and the
\* preview embed URL uses /video/p.
EveryTileOpensItsMainVideo ==
  [][\A tile \in Tiles, ctorThrows \in BOOLEAN, scrollTopOk \in BOOLEAN :
       OpenLightbox(tile, ctorThrows, scrollTopOk) => OpenedFrom(tile)]_vars

\* C9, amended: the same for every tile whose main video id is not the
\* invalid-id sentinel, which loadVideo rejects before it sets the URL.
ValidTileOpensItsMainVideo ==
  [][\A tile \in Tiles, ctorThrows \in BOOLEAN, scrollTopOk \in BOOLEAN :
       (OpenLightbox(tile, ctorThrows, scrollTopOk) /\ tile.mainVideo # InvalidVideoId)
         => OpenedFrom(tile)]_vars

\* the lightbox opened from the tile "Demo" on a restricted platform, next
\* to that tile's preview
DemoOpenedNextToItsPreview ==
  /\ env.restricted /\ env.thumbTile.title = "Demo"
  /\ dom.active /\ dom.title = "Demo"
  /\ dom.src.path = <<"video", "123">>
  /\ HasParam(dom.src, "background", "1")
  /\ \E i \in AttachedEmbeds(thumb) : thumb.embeds[i].src.path = <<"video", "456">>

(***************************************************************************)
(* Player handles.                                                         *)
(***************************************************************************)
\* C1: for every sequence of openLightbox and closeLightbox calls, opening
\* while open included, at most one handle that was constructed and not yet
\* destroyed exists at any time.
OneLiveHandle == Cardinality(LiveHandles(player)) <= 1

\* C2: as long as opens and closes have strictly alternated, there is never
\* more than one live handle, and while the lightbox is closed currentPlayer
\* is null and no handle is live.
AlternatingLeavesNoHandle ==
  hist.strict =>
    /\ Cardinality(LiveHandles(player)) <= 1
    /\ ~dom.active => (lb.currentPlayer = 0 /\ LiveHandles(player) = {})

(***************************************************************************)
(* Teardown: sessions on a page whose SDK can throw, the clock standing    *)
(* still, with destroy() called between the user's actions.                *)
(***************************************************************************)
NextTeardown ==
  \/ Open
  \/ Close
  \/ \E destroyThrows \in BOOLEAN : Destroy(destroyThrows)
  \/ TogglePlayPause
  \/ \E h \in Handles : ReadyResolves(h)
  \/ \E h \in Handles : OnPlay(h)
  \/ \E h \in Handles : OnPause(h)

SpecTeardown == Init /\ [][NextTeardown]_vars

\* C14: destroy() leaves currentPlayer null whether or not the handle's
\* destroy() threw, and so does closeLightbox, which also runs to its end
\* (its last statement arms the thumbnails' re-initialization).
TeardownClearsTheHandle ==
  [][\A destroyThrows \in BOOLEAN :
       /\ Destroy(destroyThrows) => lb'.currentPlayer = 0
       /\ CloseLightbox(destroyThrows) =>
            (lb'.currentPlayer = 0 /\ ReinitDelayMs \in timers'.reinit)]_vars

(***************************************************************************)
(* Requests: sessions on either kind of platform with an SDK whose         *)
(* promises can reject, the clock standing still.                          *)
(***************************************************************************)
InitRequests ==
  \E e \in Envs :
    /\ e.rejects /\ ~e.faults
    /\ e.tiles = Playable /\ ~e.smoother /\ ~e.thumbs /\ e.hasResizeObserver
    /\ e.thumbTile.title = "Demo"
    /\ InitWith(e, 0, FALSE, FALSE, FALSE)

NextRequests ==
  \/ Open
  \/ Close
  \/ TogglePlayPause
  \/ \E kind \in ChainKinds, stage \in ChainStages, fulfilled \in BOOLEAN :
       ChainSettles(kind, stage, fulfilled)
  \/ \E h \in Handles : ReadyResolves(h)
  \/ \E h \in Handles : ReadyRejects(h)
  \/ \E h \in Handles : OnPlay(h)
  \/ \E h \in Handles : OnPause(h)
  \/ \E h \in Handles : DurationResolves(h)
  \/ \E h \in Handles : DurationRejects(h)
  \/ \E clientX \in PointerXs, rect \in TrackRects : TimelineClick(clientX, rect)

SpecRequests == InitRequests /\ [][NextRequests]_vars

\* C15: no promise of a request to the player handle (play, pause, setMuted,
\* setVolume, getDuration, setCurrentTime) has rejected with nothing to
\* handle the rejection.
NoRequestGoesUnhandled == ~hist.unhandled

ErrorStateShown ==
  /\ dom.errorActive /\ ~dom.controlsShown
  /\ ~dom.loadingActive /\ timers.loader = {}

\* C16: openLightbox with the sentinel id ends with the error placeholder
\* active, the controls hidden and the loader's timer cancelled, constructs
\* no handle, leaves the embed URL as it was and arms no controls-reveal
\* timer; and the error state stays until the next open or close.
SentinelEndsInErrorState ==
  /\ [][\A tile \in Tiles, ctorThrows \in BOOLEAN, scrollTopOk \in BOOLEAN :
          (OpenLightbox(tile, ctorThrows, scrollTopOk)
             /\ tile.mainVideo = InvalidVideoId) =>
            /\ ErrorStateShown'
            /\ player'.hstate = player.hstate
            /\ dom'.src = dom.src
            /\ timers'.controls = timers.controls]_vars
  /\ [](hist.invalid => ErrorStateShown)

\* C17: when ready() of the handle in currentPlayer rejects, the error
\* placeholder is active, the controls are hidden, the loading indicator is
\* hidden and its timer cancelled.
ReadyRejectionShowsError ==
  [][\A h \in Handles :
       (ReadyRejects(h) /\ h = lb.currentPlayer) => ErrorStateShown']_vars

\* ready() of the session's handle has rejected after the controls were
\* revealed: the error state has hidden them again
RejectedAfterControlsRevealed ==
  /\ lb.currentPlayer # 0
  /\ lb.currentPlayer \notin player.readyPending
  /\ player.bridges[lb.currentPlayer] = 0
  /\ lb.allowLoader /\ timers.controls = {}
  /\ ErrorStateShown

\* hist.loadAge: the time since the latest loadVideo began, up to 600 ms.
\* C19: the loading indicator is visible only when 600 ms have passed since
\* the latest loadVideo began, and it becomes visible only in an open
\* lightbox that shows no error and whose handle's ready() has not been
\* fulfilled.
LoaderWaitsForItsDelay ==
  /\ [](dom.loadingActive => hist.loadAge >= LoaderDelayMs)
  /\ [][(~dom.loadingActive /\ dom'.loadingActive) =>
          /\ dom.active /\ ~dom.errorActive
          /\ lb.currentPlayer # 0 => player.bridges[lb.currentPlayer] = 0]_vars

Harmless ==
  /\ lb'.videoDuration = lb.videoDuration
  /\ lb'.isMuted = lb.isMuted
  /\ dom'.errorActive => dom.errorActive
  /\ dom'.toastActive => dom.toastActive
  /\ hist'.issued = <<>>

\* C21: a continuation of a closed session (ready() or getDuration() of a
\* destroyed handle settling, a step of an unmute chain in the closed
\* lightbox) changes neither videoDuration nor isMuted, activates neither the
\* error placeholder nor a toast and sends no request to a handle.
StaleContinuationsAreHarmless ==
  [][/\ \A h \in Handles :
          (/\ player.hstate[h] = "destroyed"
           /\ ReadyResolves(h) \/ ReadyRejects(h) \/ DurationResolves(h)) => Harmless
     /\ \A kind \in ChainKinds, stage \in ChainStages, fulfilled \in BOOLEAN :
          (/\ ~dom.active /\ lb.currentPlayer = 0
           /\ ChainSettles(kind, stage, fulfilled)) => Harmless]_vars

\* C22: on every handle the bridges (play, pause, volumechange, timeupdate)
\* are registered at most once, and not before ready() of that very handle
\* has settled.
BridgesWiredOnceOnOwnReady ==
  \A h \in Handles :
    /\ player.bridges[h] <= 1
    /\ player.bridges[h] > 0 => h \notin player.readyPending

DraggingOnlyDuringGesture ==
  lb.isDragging => hist.gesture \in {"mouse", "touch"}

\* C27: the click that the browser delivers for a gesture on the timeline
\* (press, moves, release) sends no request to the handle.
ClickOfGestureDoesNotSeek ==
  [][\A clientX \in PointerXs, rect \in TrackRects :
       (TimelineClick(clientX, rect) /\ hist.gesture = "click") =>
         hist'.issued = <<>>]_vars

\* C28: the tile holds at most one preview embed at any time.
OneEmbedPerTile ==
  Cardinality(AttachedEmbeds(thumb)) <= 1

\* C29: an embed whose load event has fired has no failure timer left, so
\* that timer never marks the tile failed; the load event starts a check
\* 1000 ms later, and that check marks the tile failed exactly when the tile
\* is visible and the embed has no rendered size, and applies the mobile
\* cover-image rule when the tile is visible and the embed has a size.
LoadedEmbedIsCheckedAfterOneSecond ==
  /\ [](\A x \in timers.fail : ~thumb.embeds[x.embed].loaded)
  /\ [][\A i \in EmbedIds :
          EmbedLoads(i) =>
            /\ timers'.settle = timers.settle \cup {[embed |-> i, left |-> 1000]}
            /\ thumb'.failed = thumb.failed]_vars
  /\ [][\A x \in timers.settle :
          SettleTimerFires(x) =>
            LET zero == thumb.embeds[x.embed].st # "attached" \/ ~thumb.sized
            IN  /\ thumb'.failed = (thumb.failed \/ (thumb.visible /\ zero))
                /\ (thumb.visible /\ ~zero) =>
                     thumb' = HideStaticImageOnMobile(M).th
                /\ ~(thumb.visible /\ ~zero) =>
                     thumb'.coverHidden = thumb.coverHidden]_vars

\* a loaded embed on a phone: every timer has run out, the tile is not
\* marked failed and its cover image is suppressed
LoadedEmbedSettledOnMobile ==
  /\ \E i \in AttachedEmbeds(thumb) :
       thumb.embeds[i].loaded /\ thumb.embeds[i].seen = "always"
  /\ timers.fail = {} /\ timers.settle = {}
  /\ thumb.mobile /\ thumb.coverHidden /\ ~thumb.failed

\* C30: a closeLightbox that returns leaves the lightbox inactive, isPlaying
\* false, isMuted true, videoDuration 0, isDragging false, the fill at 0, the
\* play button reading "Play", both time displays reading "0:00", the error
\* placeholder and the loading indicator inactive with no loader timer
\* pending, the controls visible and a new embed element with an empty
\* source, whatever the state before.
CloseLeavesTheLightboxReset ==
  [][CloseLightbox(FALSE) =>
       /\ ~dom'.active
       /\ ~lb'.isPlaying /\ lb'.isMuted /\ lb'.videoDuration = Zero
       /\ ~lb'.isDragging /\ dom'.fill = Zero
       /\ dom'.playBtnText = "Play"
       /\ dom'.currentTimeText = "0:00" /\ dom'.totalTimeText = "0:00"
       /\ ~dom'.errorActive /\ ~dom'.loadingActive
       /\ timers'.loader = {} /\ lb'.loadingTimeoutId = 0
       /\ dom'.controlsShown
       /\ dom'.frameFresh /\ dom'.src = EmptySrc]_vars

\* the lightbox closed in the middle of a drag on the timeline of a video
\* that had reported its duration
ClosedInTheMiddleOfADrag ==
  /\ ~dom.active /\ hist.gesture = "mouse" /\ ~lb.isDragging
  /\ \E h \in Handles : player.hstate[h] = "destroyed" /\ player.bridges[h] > 0
  /\ timers.reinit # {} /\ dom.frameFresh /\ dom.fill = Zero

\* C31: whenever the error placeholder is active the custom controls are
\* hidden; the controls timer of loadVideo does not reveal them meanwhile.
ErrorHidesControls ==
  dom.errorActive => ~dom.controlsShown

\* C32: a closeLightbox that runs while the lightbox is not open, the page
\* still at the offset the close before it restored, leaves the page at that
\* offset.
SecondCloseKeepsTheOffset ==
  [][(CloseAgain /\ hist.closeY # -1 /\ dom.scrollY = hist.closeY) =>
       dom'.scrollY = dom.scrollY]_vars

\* C33: a closeLightbox that returns leaves the center toast hidden, also
\* inside the lock window of a toast shown during the session.
CloseHidesTheToast ==
  [][CloseLightbox(FALSE) => ~dom'.toastActive]_vars

\* C34: a tile whose current embed has fired load and has passed its check
\* one second later, visible and with a rendered size, is not marked failed
\* (no embed of the tile having fired an error event), whatever happened to
\* the embeds it replaced.
FailedMarkIsOfTheCurrentEmbed ==
  \A i \in AttachedEmbeds(thumb) :
    (/\ AttachedEmbeds(thumb) = {i}
     /\ thumb.embeds[i].loaded /\ thumb.embeds[i].seen = "always"
     /\ \A x \in timers.settle : x.embed # i
     /\ ~hist.errorEvent) => ~thumb.failed

\* C35: on an unrestricted platform a tap that comes right after a tap, no
\* player event delivered between the two, sends the opposite request (only
\* taps send play or pause there; hist.echo: the step was a tap and sent what
\* the step before it sent).
TapsAlternate ==
  ~env.restricted => ~hist.echo

\* C36: in every reachable state the fill of the timeline (the fraction last
\* given to updateTimelinePosition) is a number within [0,1].
FillIsAFraction ==
  InUnit(dom.fill)

\* C13: while the lightbox is closed none of the timers a session arms (the
\* loader's delay, a toast's auto-hide, the controls' reveal) is pending, and
\* every pending failure timer belongs to an embed that is still attached.
NoTimerOutlivesItsOwner ==
  /\ ~dom.active =>
       (timers.loader = {} /\ timers.toast = {} /\ timers.controls = {})
  /\ \A x \in timers.fail : thumb.embeds[x.embed].st = "attached"

(***************************************************************************)
(* The toast.  hist.shownUntil is the time left to the deadline T+d of the *)
(* most recent show, whatever has become of the field toastLockUntil.      *)
(***************************************************************************)
\* C3: a toast shown for d ms stays visible through every step taken before
\* its deadline, hide requests included; while it is visible a timer due
\* exactly at the deadline is pending (the clock cannot pass it), and when a
\* due timer fires at or after the deadline, no new toast being shown in that
\* step, the toast is hidden.
EarlyHideIsDeferred ==
  [][/\ (hist.shownUntil > 0 /\ dom.toastActive) => dom.toastActive'
     /\ dom.toastActive' => \E x \in timers'.toast : x.left = hist'.shownUntil
     /\ \A x \in timers.toast :
          (/\ x.left = 0
           /\ x \notin timers'.toast
           /\ hist.shownUntil = 0
           /\ hist'.shownUntil = 0) => ~dom.toastActive']_vars

\* a "Paused" toast still visible part-way through its second although a play
\* event has asked to hide it
PausedToastOutlivesPlay ==
  /\ dom.toastActive
  /\ dom.toastText = "Paused"
  /\ lb.isPlaying
  /\ hist.shownUntil > 0
  /\ hist.shownUntil < ToastDefaultMs

\* C4: in every reachable state the toast is visible whenever the current time
\* is before toastLockUntil of the most recent show.
VisibleUntilLock == hist.shownUntil > 0 => dom.toastActive

\* the auto-hide timer of an earlier toast, its identifier dropped by
\* resetControls, is due while a later toast is inside its minimum time
DroppedTimerDueInsideLock ==
  /\ hist.shownUntil > 0
  /\ dom.toastActive
  /\ \E x \in timers.toast : ~x.tracked /\ x.left = 0

=============================================================================
